---- MODULE Spec2Model ----
(***************************************************************************)
(* Conditional DePhase (Differential Manchester) encoder/decoder of        *)
(* src/src/cdp.cpp, with the encode-then-decode test of src/src/main.cpp.  *)
(*                                                                         *)
(* uint8_t and uint16_t keep their widths.  size_t is modelled as an       *)
(* unsigned integer of SizeBits bits (scaled down from 16/32/64), so that  *)
(* every value of the size type, and the wrap of a product, can be         *)
(* enumerated.  A buffer is the memory that starts at its pointer: cells   *)
(* 0 .. data_*_len-1 belong to the caller, later cells are adjacent        *)
(* memory.                                                                 *)
(***************************************************************************)
EXTENDS Integers, Sequences, FiniteSets, TLC

(* ------------------------------ bounds --------------------------------- *)

\* width in bits of the modelled size_t
SizeBits == 5

\* longest input buffer (in bytes) drawn with arbitrary contents
MaxLen == 4

SIZE_MAX == 2^SizeBits - 1

SizeT == 0..SIZE_MAX

\* size_t arithmetic wraps modulo 2^SizeBits
SizeWrap(x) == x % (2^SizeBits)

(* ----------------------------- constants ------------------------------- *)

LOGIC_LEVEL_LOW == 0

LOGIC_LEVEL_HIGH == 1

INITIAL_SIGNAL_LEVEL == LOGIC_LEVEL_HIGH

(* --------------------------- bit operations ---------------------------- *)

\* a | b on unsigned operands
RECURSIVE BitOr(_, _)
BitOr(a, b) ==
    IF a = 0 THEN b
    ELSE IF b = 0 THEN a
    ELSE (IF a % 2 = 1 \/ b % 2 = 1 THEN 1 ELSE 0) + 2 * BitOr(a \div 2, b \div 2)

\* a << n (operands are promoted to int; no result here exceeds 2^16)
Shl(a, n) == a * (2^n)

\* conversion to uint8_t / uint16_t
U8(x) == x % 256

U16(x) == x % 65536

\* (data >> bit_n) & 0x01
GET_BIT(data, bit_n) == (data \div (2^bit_n)) % 2

(* ------------------------------- encode -------------------------------- *)

\* mutant of encode_bit: the two symbols exchanged
encode_bit_swapped(data_bit, current_signal_level) ==
    IF data_bit = current_signal_level
    THEN [ret |-> 1, current_signal_level |-> LOGIC_LEVEL_LOW]
    ELSE [ret |-> 2, current_signal_level |-> LOGIC_LEVEL_HIGH]

\* returns the 2-bit symbol and the new *current_signal_level
encode_bit(data_bit, current_signal_level) ==
    IF data_bit = current_signal_level
    THEN [ret |-> 2, current_signal_level |-> LOGIC_LEVEL_LOW]
    ELSE [ret |-> 1, current_signal_level |-> LOGIC_LEVEL_HIGH]

\* mutant of encode_byte_init: packing starts at bit 0 instead of bit 8
encode_byte_init_low_first(current_signal_level) ==
    [i |-> 0, encoded_byte |-> 0, encode_bit_i |-> 0,
     current_signal_level |-> current_signal_level]

\* locals of encode_byte before its loop
encode_byte_init(current_signal_level) ==
    [i |-> 0, encoded_byte |-> 0, encode_bit_i |-> 8,
     current_signal_level |-> current_signal_level]

\* one iteration of the loop of encode_byte, for bit s.i
encode_byte_step(s, data_byte) ==
    LET r == encode_bit(GET_BIT(data_byte, s.i), s.current_signal_level)
        e1 == U16(BitOr(s.encoded_byte, Shl(GET_BIT(r.ret, 1), s.encode_bit_i)))
        e2 == U16(BitOr(e1, Shl(GET_BIT(r.ret, 0), s.encode_bit_i + 1)))
        n == U8(s.encode_bit_i + 2)
    IN  [i |-> U8(s.i + 1),
         encoded_byte |-> e2,
         encode_bit_i |-> IF n >= 16 THEN 0 ELSE n,
         current_signal_level |-> r.current_signal_level]

\* for(i; i < end; i++) of encode_byte
RECURSIVE encode_byte_for(_, _, _)
encode_byte_for(s, data_byte, end) ==
    IF s.i < end
    THEN encode_byte_for(encode_byte_step(s, data_byte), data_byte, end)
    ELSE s

encode_byte(data_byte, current_signal_level) ==
    LET s == encode_byte_for(encode_byte_init(current_signal_level), data_byte, 8)
    IN  [ret |-> s.encoded_byte, current_signal_level |-> s.current_signal_level]

\* mutant of encode_rejects: >= in place of >
encode_rejects_ge(len_in, len_out) == SizeWrap(len_in * 2) >= len_out

\* the capacity test of encode: TRUE when the call is rejected
encode_rejects(len_in, len_out) == SizeWrap(len_in * 2) > len_out

\* locals of encode before its loop; written is the set of output cells stored to
encode_init(mem_out) ==
    [i |-> 0, encode_byte_i |-> 0,
     current_signal_level |-> INITIAL_SIGNAL_LEVEL,
     data_out |-> mem_out, written |-> {}, reads |-> {}]

\* mutant of encode_step: every byte is encoded from the initial level
encode_step_reset_level(s, mem_in) ==
    LET r == encode_byte(mem_in[s.i + 1], INITIAL_SIGNAL_LEVEL)
        j == s.encode_byte_i
    IN  [i |-> SizeWrap(s.i + 1),
         encode_byte_i |-> SizeWrap(j + 2),
         current_signal_level |-> r.current_signal_level,
         data_out |-> [s.data_out EXCEPT ![j] = U8((r.ret \div 256) % 256),
                                         ![j + 1] = U8(r.ret % 256)],
         written |-> s.written \cup {j, j + 1},
         reads |-> s.reads \cup {s.i}]

\* one iteration of the loop of encode
encode_step(s, mem_in) ==
    LET r == encode_byte(mem_in[s.i + 1], s.current_signal_level)
        j == s.encode_byte_i
    IN  [i |-> SizeWrap(s.i + 1),
         encode_byte_i |-> SizeWrap(j + 2),
         current_signal_level |-> r.current_signal_level,
         data_out |-> [s.data_out EXCEPT ![j] = U8((r.ret \div 256) % 256),
                                         ![j + 1] = U8(r.ret % 256)],
         written |-> s.written \cup {j, j + 1},
         reads |-> s.reads \cup {s.i}]

\* for(i; i < data_in_len; i++) of encode, stopped after at most fuel iterations
RECURSIVE encode_for(_, _, _, _)
encode_for(s, mem_in, len_in, fuel) ==
    IF s.i < len_in /\ fuel > 0
    THEN encode_for(encode_step(s, mem_in), mem_in, len_in, fuel - 1)
    ELSE s

\* the whole call; ret is the returned bool
encode(mem_in, len_in, mem_out, len_out) ==
    IF encode_rejects(len_in, len_out)
    THEN [ret |-> FALSE, data_out |-> mem_out, written |-> {}, reads |-> {}]
    ELSE LET s == encode_for(encode_init(mem_out), mem_in, len_in, SIZE_MAX + 1)
         IN  [ret |-> TRUE, data_out |-> s.data_out,
              written |-> s.written, reads |-> s.reads]

\* encode stopped by a trap at its first store outside the output buffer
encode_trapped(mem_in, len_in, mem_out, len_out) ==
    LET s == encode_for(encode_init(mem_out), mem_in, len_in, len_out \div 2)
        r == encode_byte(mem_in[s.i + 1], s.current_signal_level)
    IN  IF len_out % 2 = 0
        THEN [data_out |-> s.data_out, written |-> s.written, reads |-> s.reads]
        ELSE [data_out |-> [s.data_out EXCEPT
                               ![s.encode_byte_i] = U8((r.ret \div 256) % 256)],
              written |-> s.written \cup {s.encode_byte_i},
              reads |-> s.reads \cup {s.i}]

(* ------------------------------- decode -------------------------------- *)

\* mutant of decode_bit: symbol 10 leaves the level as it was
decode_bit_keeps_level(data_bit, current_signal_level) ==
    IF data_bit = 2
    THEN [ret |-> current_signal_level, current_signal_level |-> current_signal_level]
    ELSE [ret |-> IF current_signal_level = 0 THEN 1 ELSE 0,
          current_signal_level |-> LOGIC_LEVEL_HIGH]

\* mutant of decode_bit: symbols 00 and 11 decode to 0 and keep the level
decode_bit_strict(data_bit, current_signal_level) ==
    IF data_bit = 2
    THEN [ret |-> current_signal_level, current_signal_level |-> LOGIC_LEVEL_LOW]
    ELSE IF data_bit = 1
    THEN [ret |-> IF current_signal_level = 0 THEN 1 ELSE 0,
          current_signal_level |-> LOGIC_LEVEL_HIGH]
    ELSE [ret |-> 0, current_signal_level |-> current_signal_level]

\* returns the decoded bit and the new *current_signal_level
decode_bit(data_bit, current_signal_level) ==
    IF data_bit = 2
    THEN [ret |-> current_signal_level, current_signal_level |-> LOGIC_LEVEL_LOW]
    ELSE [ret |-> IF current_signal_level = 0 THEN 1 ELSE 0,
          current_signal_level |-> LOGIC_LEVEL_HIGH]

\* locals of decode_byte before its loops
decode_byte_init(current_signal_level) ==
    [i |-> 8, decoded_byte |-> 0, decode_bit_i |-> 0,
     current_signal_level |-> current_signal_level]

\* one iteration of either loop of decode_byte, for the symbol at bits s.i, s.i+1
decode_byte_step(s, data_byte) ==
    LET b0 == GET_BIT(data_byte, s.i + 1)
        b1 == U8(BitOr(b0, Shl(GET_BIT(data_byte, s.i), 1)))
        r == decode_bit(b1, s.current_signal_level)
    IN  [i |-> U8(s.i + 2),
         decoded_byte |-> U16(BitOr(s.decoded_byte, Shl(r.ret, s.decode_bit_i))),
         decode_bit_i |-> U8(s.decode_bit_i + 1),
         current_signal_level |-> r.current_signal_level]

\* for(i; i < end; i = i + 2) of decode_byte
RECURSIVE decode_byte_for(_, _, _)
decode_byte_for(s, data_byte, end) ==
    IF s.i < end
    THEN decode_byte_for(decode_byte_step(s, data_byte), data_byte, end)
    ELSE s

decode_byte(data_byte, current_signal_level) ==
    LET msb == decode_byte_for(decode_byte_init(current_signal_level), data_byte, 16)
        lsb == decode_byte_for([msb EXCEPT !.i = 0], data_byte, 8)
    IN  [ret |-> U8(lsb.decoded_byte),
         current_signal_level |-> lsb.current_signal_level]

\* the capacity test of decode: TRUE when the call is rejected
decode_rejects(len_in, len_out) == SizeWrap(len_out * 2) < len_in

\* mutant of decode_init: decode starts from level LOW
decode_init_low(mem_out) ==
    [i |-> 0, decode_byte_i |-> 0,
     current_signal_level |-> LOGIC_LEVEL_LOW,
     data_out |-> mem_out, written |-> {}, reads |-> {}]

\* locals of decode before its loop
decode_init(mem_out) ==
    [i |-> 0, decode_byte_i |-> 0,
     current_signal_level |-> INITIAL_SIGNAL_LEVEL,
     data_out |-> mem_out, written |-> {}, reads |-> {}]

\* mutant of decode_step: every unit is decoded from the initial level
decode_step_reset_level(s, mem_in) ==
    LET e1 == U16(BitOr(0, Shl(mem_in[s.i + 1], 8)))
        e2 == U16(BitOr(e1, mem_in[s.i + 2]))
        r == decode_byte(e2, INITIAL_SIGNAL_LEVEL)
    IN  [i |-> SizeWrap(s.i + 2),
         decode_byte_i |-> SizeWrap(s.decode_byte_i + 1),
         current_signal_level |-> r.current_signal_level,
         data_out |-> [s.data_out EXCEPT ![s.decode_byte_i] = r.ret],
         written |-> s.written \cup {s.decode_byte_i},
         reads |-> s.reads \cup {s.i, s.i + 1}]

\* one iteration of the loop of decode; mem_in holds the cell after the buffer too
decode_step(s, mem_in) ==
    LET e1 == U16(BitOr(0, Shl(mem_in[s.i + 1], 8)))
        e2 == U16(BitOr(e1, mem_in[s.i + 2]))
        r == decode_byte(e2, s.current_signal_level)
    IN  [i |-> SizeWrap(s.i + 2),
         decode_byte_i |-> SizeWrap(s.decode_byte_i + 1),
         current_signal_level |-> r.current_signal_level,
         data_out |-> [s.data_out EXCEPT ![s.decode_byte_i] = r.ret],
         written |-> s.written \cup {s.decode_byte_i},
         reads |-> s.reads \cup {s.i, s.i + 1}]

\* for(i; i < data_in_len; i = i + 2) of decode, at most fuel iterations
RECURSIVE decode_for(_, _, _, _)
decode_for(s, mem_in, len_in, fuel) ==
    IF s.i < len_in /\ fuel > 0
    THEN decode_for(decode_step(s, mem_in), mem_in, len_in, fuel - 1)
    ELSE s

\* the whole call; mem_in is the input buffer followed by the adjacent cell
decode(mem_in, len_in, mem_out, len_out) ==
    IF decode_rejects(len_in, len_out)
    THEN [ret |-> FALSE, data_out |-> mem_out, written |-> {}, reads |-> {}]
    ELSE LET s == decode_for(decode_init(mem_out), mem_in, len_in, SIZE_MAX + 1)
         IN  [ret |-> TRUE, data_out |-> s.data_out,
              written |-> s.written, reads |-> s.reads]

\* decode stopped by a trap at its load of the cell after an odd-length buffer
decode_trapped(mem_in, len_in, mem_out) ==
    LET s == decode_for(decode_init(mem_out), mem_in, len_in, len_in \div 2)
    IN  [data_out |-> s.data_out, written |-> s.written,
         reads |-> s.reads \cup {s.i}]

(* ------------------------- the calling program ------------------------- *)

VARIABLES
    data_in,       \* contents of the input buffer, a sequence of data_in_len bytes
    data_in_len,   \* number of bytes of the input buffer
    data_out,      \* memory at the output pointer, cells 0 .. SIZE_MAX
    data_out_len,  \* number of cells of data_out that belong to the output buffer
    pc,            \* "ready": buffers set up; "returned"; "trap": call stopped
    op,            \* the call made: "none", "encode", "decode"
    ret,           \* what the call returned: "none", TRUE or FALSE
    written,       \* cells of data_out the call stored to
    reads,         \* cells at the input pointer the call loaded
    data,          \* test1: the raw bytes whose encoding is now data_in
    chained        \* test1: TRUE once the encoded bytes were handed to decode

vars == <<data_in, data_in_len, data_out, data_out_len, pc, op, ret,
          written, reads, data, chained>>

\* byte values used for buffers of arbitrary contents: 0xE5 is the documented
\* example, 0x74 is test0's byte, 0x5A holds valid symbols only, 0x36 holds all
\* four symbols 01, 10, 11, 00
ByteSamples == {229, 116, 90, 54}

\* bytes whose four symbols are all 10 or 01
ValidBytes == {b \in 0..255 : \A k \in {0, 2, 4, 6} : GET_BIT(b, k) # GET_BIT(b, k + 1)}

\* all sequences over S of length 0 .. n
SeqsUpTo(S, n) == UNION {[1..m -> S] : m \in 0..n}

\* input buffers: sampled contents up to MaxLen bytes; every raw byte, at the
\* initial level and after a byte (0x80) that leaves the level LOW; every valid
\* encoded unit, at the initial level and after a unit that leaves the level LOW
Inputs ==
    SeqsUpTo(ByteSamples, MaxLen)
    \cup {<<b>> : b \in 0..255}
    \cup {<<128, b>> : b \in 0..255}
    \cup {<<h, l>> : h \in ValidBytes, l \in ValidBytes}
    \cup {<<90, 90, h, l>> : h \in {90, 165}, l \in ValidBytes}

\* output capacities tried for an input of n bytes: around n/2 and around 2n
Caps(n) == {c \in {n \div 2 - 1, n \div 2, (n + 1) \div 2, 2 * n - 1, 2 * n} : c >= 0}

\* the output memory before a call, as the tests initialise it
ZeroMem == [j \in SizeT |-> 0]

Init ==
    /\ data_in \in Inputs
    /\ data_in_len = Len(data_in)
    /\ data_out = ZeroMem
    /\ data_out_len \in Caps(Len(data_in))
    /\ pc = "ready"
    /\ op = "none"
    /\ ret = "none"
    /\ written = {}
    /\ reads = {}
    /\ data = <<>>
    /\ chained = FALSE

\* every length and capacity of the size type, buffer contents uniform
InitSize ==
    /\ data_in_len \in SizeT
    /\ data_in = [k \in 1..data_in_len |-> 90]
    /\ data_out = ZeroMem
    /\ data_out_len \in SizeT
    /\ pc = "ready"
    /\ op = "none"
    /\ ret = "none"
    /\ written = {}
    /\ reads = {}
    /\ data = <<>>
    /\ chained = FALSE

\* Cdp.encode(data_in, data_in_len, data_out, data_out_len); a store past the
\* output buffer lands in the adjacent memory
CallEncode ==
    /\ pc = "ready"
    /\ LET r == encode(data_in, data_in_len, data_out, data_out_len)
       IN  /\ data_out' = r.data_out
           /\ ret' = r.ret
           /\ written' = r.written
           /\ reads' = r.reads
    /\ pc' = "returned"
    /\ op' = "encode"
    /\ UNCHANGED <<data_in, data_in_len, data_out_len, data, chained>>

\* the same call when the first store past the output buffer traps
EncodeTrap ==
    /\ pc = "ready"
    /\ ~encode_rejects(data_in_len, data_out_len)
    /\ 2 * data_in_len > data_out_len
    /\ LET r == encode_trapped(data_in, data_in_len, data_out, data_out_len)
       IN  /\ data_out' = r.data_out
           /\ written' = r.written
           /\ reads' = r.reads
    /\ pc' = "trap"
    /\ op' = "encode"
    /\ UNCHANGED <<data_in, data_in_len, data_out_len, ret, data, chained>>

\* values the cell after the input buffer may hold; the cell is loaded only
\* when data_in_len is odd
AdjacentBytes == IF data_in_len % 2 = 1 THEN ByteSamples ELSE {0}

\* Cdp.decode(data_in, data_in_len, data_out, data_out_len); a load of the cell
\* after the input buffer yields whatever byte adj the adjacent memory holds
CallDecode ==
    /\ pc = "ready"
    /\ \E adj \in AdjacentBytes :
         LET r == decode(Append(data_in, adj), data_in_len, data_out, data_out_len)
         IN  /\ data_out' = r.data_out
             /\ ret' = r.ret
             /\ written' = r.written
             /\ reads' = r.reads
    /\ pc' = "returned"
    /\ op' = "decode"
    /\ UNCHANGED <<data_in, data_in_len, data_out_len, data, chained>>

\* the same call when the load of the cell after the input buffer traps
DecodeTrap ==
    /\ pc = "ready"
    /\ ~decode_rejects(data_in_len, data_out_len)
    /\ data_in_len % 2 = 1
    /\ LET r == decode_trapped(data_in, data_in_len, data_out)
       IN  /\ data_out' = r.data_out
           /\ written' = r.written
           /\ reads' = r.reads
    /\ pc' = "trap"
    /\ op' = "decode"
    /\ UNCHANGED <<data_in, data_in_len, data_out_len, ret, data, chained>>

\* test0/test1 after a successful encode into a buffer of 2*DATA_SIZE bytes:
\* Cdp.decode(encoded_data, DATA_SIZE*2, decoded_data, DATA_SIZE)
TestDecode ==
    /\ pc = "returned"
    /\ op = "encode"
    /\ ret = TRUE
    /\ ~chained
    /\ data_out_len = 2 * data_in_len
    /\ LET enc == [k \in 1..data_out_len |-> data_out[k - 1]]
           r == decode(Append(enc, 0), data_out_len, ZeroMem, data_in_len)
       IN  /\ data_in' = enc
           /\ data_in_len' = data_out_len
           /\ data_out_len' = data_in_len
           /\ data_out' = r.data_out
           /\ ret' = r.ret
           /\ written' = r.written
           /\ reads' = r.reads
    /\ data' = data_in
    /\ chained' = TRUE
    /\ pc' = "returned"
    /\ op' = "decode"

Next == CallEncode \/ CallDecode \/ DecodeTrap \/ TestDecode

Spec == Init /\ [][Next]_vars

NextSize == CallEncode \/ EncodeTrap \/ CallDecode \/ DecodeTrap

SpecSize == InitSize /\ [][NextSize]_vars

(* ------------------------------- claims -------------------------------- *)

\* a call that returned b
Returned(o, b) == pc = "returned" /\ op = o /\ ret = b

\* the caller's view of the first n cells of the output buffer
OutSeq(n) == [k \in 1..n |-> data_out[k - 1]]

\* cells of the output memory from index n on are as before the call
UntouchedFrom(n) ==
    /\ \A j \in written : j < n
    /\ \A j \in SizeT : j >= n => data_out[j] = ZeroMem[j]

\* C1: round-trip identity. For every byte sequence b of length n (0 and 1
\* included) encode(b, n, enc, 2n) returns true, decode(enc, 2n, dec, n)
\* returns true and dec[i] = b[i] for every i in 0..n-1.
RoundTripIdentity ==
    /\ (pc = "returned" /\ op = "encode" /\ data_out_len = 2 * data_in_len
            => ret = TRUE)
    /\ (pc = "returned" /\ chained
            => /\ op = "decode"
               /\ data_in_len = 2 * Len(data)
               /\ data_out_len = Len(data)
               /\ ret = TRUE
               /\ \A i \in 0..(Len(data) - 1) : data_out[i] = data[i + 1])

\* a round trip of two bytes whose first byte leaves the level LOW has finished
RoundTripWitness ==
    /\ pc = "returned" /\ chained /\ ret = TRUE
    /\ Len(data) = 2 /\ data[1] = 128 /\ data[2] = 229
    /\ data_out[0] = 128 /\ data_out[1] = 229

\* C2: capacity rejection. Where doubling does not overflow the size type,
\* encode returns false exactly when output_capacity < 2*input_len and decode
\* returns false exactly when 2*output_capacity < input_len; a call that
\* returns false stores to no cell of the output buffer.
CapacityRejection ==
    pc = "returned" =>
        /\ (op = "encode" /\ 2 * data_in_len <= SIZE_MAX
                => (ret = FALSE <=> data_out_len < 2 * data_in_len))
        /\ (op = "decode" /\ 2 * data_out_len <= SIZE_MAX
                => (ret = FALSE <=> 2 * data_out_len < data_in_len))
        /\ (ret = FALSE => written = {} /\ data_out = ZeroMem)

\* decode of 4 bytes into a buffer of 1 byte was rejected and stored nothing
CapacityRejectionWitness ==
    /\ Returned("decode", FALSE)
    /\ data_in_len = 4 /\ data_out_len = 1
    /\ written = {} /\ data_out = ZeroMem

\* C3: odd-length decode input. For every successful decode with odd input_len
\* the trailing byte is dropped: exactly floor(input_len/2) output bytes are
\* written, output[floor(input_len/2)] and later cells are unchanged, and no
\* input index >= input_len is read.
OddLengthTrailingByteDropped ==
    Returned("decode", TRUE) /\ data_in_len % 2 = 1 =>
        /\ written = 0..((data_in_len \div 2) - 1)
        /\ UntouchedFrom(data_in_len \div 2)
        /\ \A r \in reads : r < data_in_len

\* level held by encode when it starts on byte i (0-based) of the input
LevelBeforeByte(i) ==
    encode_for(encode_init(ZeroMem), data_in, data_in_len, i).current_signal_level

\* level held by encode_byte, started on byte at level lb, after k of its bits
LevelAtBit(byte, lb, k) ==
    encode_byte_for(encode_byte_init(lb), byte, k).current_signal_level

\* the 2-bit symbol encode_bit produces for bit k of byte, met at level c
SymbolOf(byte, k, c) == encode_bit(GET_BIT(byte, k), c).ret

\* the 16-bit unit on the wire for byte i: output[2i] high, output[2i+1] low
WireUnit(i) == data_out[2 * i] * 256 + data_out[2 * i + 1]

\* C4: encoded wire layout. On a successful encode of n bytes the symbol for
\* bit k of byte i occupies bits p = (8+2k) mod 16 and p+1 of the byte's
\* 16-bit unit, high bit at p, low bit at p+1; output[2i] holds bits 8..15 and
\* output[2i+1] bits 0..7 of the unit; exactly cells 0..2n-1 are written and
\* no cell at index >= 2n is modified.
EncodedWireLayout ==
    Returned("encode", TRUE) =>
        /\ written = 0..(2 * data_in_len - 1)
        /\ UntouchedFrom(2 * data_in_len)
        /\ \A i \in 0..(data_in_len - 1) : \A lb \in {LevelBeforeByte(i)} :
             \A unit \in {encode_byte(data_in[i + 1], lb).ret} :
                 /\ data_out[2 * i] = unit \div 256
                 /\ data_out[2 * i + 1] = unit % 256
                 /\ \A k \in 0..7 : \A p \in {(8 + 2 * k) % 16} :
                      \A sym \in {SymbolOf(data_in[i + 1], k,
                                           LevelAtBit(data_in[i + 1], lb, k))} :
                          /\ GET_BIT(WireUnit(i), p) = GET_BIT(sym, 1)
                          /\ GET_BIT(WireUnit(i), p + 1) = GET_BIT(sym, 0)

\* two bytes were encoded, the second from level LOW, into cells 0..3
EncodedWireLayoutWitness ==
    /\ Returned("encode", TRUE)
    /\ data_in = <<128, 229>>
    /\ LevelBeforeByte(1) = LOGIC_LEVEL_LOW
    /\ written = 0..3

\* C5: documented example. Encoding the raw byte 11100101 writes 01011010 and
\* 10011001; decoding 01011010 10011001 writes 11100101.
DocumentedExampleVector ==
    /\ (pc = "returned" /\ op = "encode" /\ data_in = <<229>> /\ data_out_len >= 2
            => ret = TRUE /\ data_out[0] = 90 /\ data_out[1] = 153)
    /\ (pc = "returned" /\ op = "decode" /\ data_in = <<90, 153>> /\ data_out_len >= 1
            => ret = TRUE /\ data_out[0] = 229)

\* C6: buffer safety of encode over the whole size type. Whenever
\* output_capacity is smaller than the true product 2*input_len, encode returns
\* false and performs no write; in no call does encode write an output index
\* >= output_capacity.
EncodeBufferSafety ==
    op = "encode" =>
        /\ (data_out_len < 2 * data_in_len
                => pc = "returned" /\ ret = FALSE /\ written = {} /\ data_out = ZeroMem)
        /\ \A j \in written : j < data_out_len

\* level on the wire at the end of unit i: the second half of the last symbol
WireLevelAfter(i) == GET_BIT(data_out[2 * i + 1], 7)

\* single-byte encodings of bytes, chained through one level variable
RECURSIVE ChainedUnits(_, _)
ChainedUnits(bytes, level) ==
    IF bytes = <<>> THEN <<>>
    ELSE LET r == encode_byte(Head(bytes), level)
         IN  <<r.ret \div 256, r.ret % 256>>
                 \o ChainedUnits(Tail(bytes), r.current_signal_level)

\* C7: cross-byte level continuity. Within one encode call the level is HIGH
\* before bit 0 of byte 0, and the level used for bit 0 of byte i+1 is the level
\* left after bit 7 of byte i; so the output is the concatenation of the
\* single-byte encodings chained through one level variable, and output bytes
\* 2i, 2i+1 depend only on input bytes 0..i.
CrossByteLevelContinuity ==
    Returned("encode", TRUE) =>
        /\ (data_in_len > 0
                => /\ LevelBeforeByte(0) = LOGIC_LEVEL_HIGH
                   /\ WireUnit(0) = encode_byte(data_in[1], LOGIC_LEVEL_HIGH).ret)
        /\ \A i \in 0..(data_in_len - 2) :
             /\ LevelBeforeByte(i + 1) =
                    encode_byte(data_in[i + 1], LevelBeforeByte(i)).current_signal_level
             /\ LevelBeforeByte(i + 1) = WireLevelAfter(i)
             /\ WireUnit(i + 1) = encode_byte(data_in[i + 2], WireLevelAfter(i)).ret
        /\ OutSeq(2 * data_in_len) = ChainedUnits(data_in, LOGIC_LEVEL_HIGH)
        /\ \A m \in 0..data_in_len :
             LET e == encode(SubSeq(data_in, 1, m), m, ZeroMem, 2 * m)
             IN  e.ret = TRUE /\ \A j \in 0..(2 * m - 1) : e.data_out[j] = data_out[j]

\* three bytes were encoded, the second and the third from level LOW
CrossByteLevelContinuityWitness ==
    /\ Returned("encode", TRUE)
    /\ data_in_len = 3
    /\ WireLevelAfter(0) = LOGIC_LEVEL_LOW
    /\ WireLevelAfter(1) = LOGIC_LEVEL_LOW
    /\ written = 0..5

\* the symbol on the wire for bit k of byte i, as the 2-bit number high,low
WireSymbol(i, k) ==
    2 * GET_BIT(WireUnit(i), (8 + 2 * k) % 16)
        + GET_BIT(WireUnit(i), ((8 + 2 * k) % 16) + 1)

FixSymbol(b, k) ==
    IF GET_BIT(b, k) = GET_BIT(b, k + 1)
    THEN b - GET_BIT(b, k) * (2^k) - GET_BIT(b, k + 1) * (2^(k + 1)) + 2^(k + 1)
    ELSE b

\* stream with every 00 or 11 symbol replaced by 01
Sanitized(stream) ==
    [j \in 1..Len(stream) |->
        FixSymbol(FixSymbol(FixSymbol(FixSymbol(stream[j], 0), 2), 4), 6)]

\* what decode stores for the stream s with the arguments of the current call
DecodedFrom(s) ==
    decode(Append(s, 0), data_in_len, ZeroMem, data_out_len).data_out

\* C9: invalid symbols are not detected. For every even-length input with
\* output_capacity*2 >= input_len (the product as the size type computes it)
\* decode returns true; each symbol 00 or 11 decodes as 01 does (bit = NOT
\* level, new level HIGH); replacing any 00 or 11 symbol of the input by 01
\* leaves the whole decoded output unchanged.
InvalidSymbolsUndetected ==
    pc = "returned" /\ op = "decode" /\ data_in_len % 2 = 0
            /\ SizeWrap(data_out_len * 2) >= data_in_len =>
        /\ ret = TRUE
        /\ \A c \in {0, 1} : \A s \in {0, 3} :
             /\ decode_bit(s, c) = decode_bit(1, c)
             /\ decode_bit(s, c) =
                    [ret |-> 1 - c, current_signal_level |-> LOGIC_LEVEL_HIGH]
        /\ data_out = DecodedFrom(Sanitized(data_in))
        /\ \A j \in 1..data_in_len : \A k \in {0, 2, 4, 6} :
             data_out = DecodedFrom([data_in EXCEPT ![j] = FixSymbol(@, k)])

\* a stream of two units holding symbols 00 and 11 was decoded
InvalidSymbolsUndetectedWitness ==
    /\ Returned("decode", TRUE)
    /\ data_in = <<54, 116, 54, 229>>
    /\ Sanitized(data_in) # data_in
    /\ written = {0, 1}

\* every symbol of the stream is 10 or 01
ValidStream(stream) == \A j \in 1..Len(stream) : stream[j] \in ValidBytes

\* C10: bijection onto valid streams. Every symbol in the output of a
\* successful encode is 10 or 01; for every stream s of even length 2n whose
\* symbols are all 10 or 01, encode(decode(s)) = s; and decode(encode(b)) = b,
\* so decode is the two-sided inverse of encode on valid streams.
EncodeBijection ==
    /\ (Returned("encode", TRUE) =>
          /\ \A i \in 0..(data_in_len - 1) : \A k \in 0..7 : WireSymbol(i, k) \in {1, 2}
          /\ ValidStream(OutSeq(2 * data_in_len))
          /\ LET e == decode(Append(OutSeq(2 * data_in_len), 0), 2 * data_in_len,
                             ZeroMem, data_in_len)
             IN  e.ret = TRUE
                 /\ \A j \in 1..data_in_len : e.data_out[j - 1] = data_in[j])
    /\ (Returned("decode", TRUE) /\ data_in_len % 2 = 0 /\ ValidStream(data_in) =>
          LET n == data_in_len \div 2
              e == encode(OutSeq(n), n, ZeroMem, data_in_len)
          IN  e.ret = TRUE
              /\ \A j \in 1..data_in_len : e.data_out[j - 1] = data_in[j])

\* a valid stream of two units, the second met at level LOW, was decoded
EncodeBijectionWitness ==
    /\ Returned("decode", TRUE)
    /\ ~chained
    /\ data_in = <<90, 90, 165, 102>>
    /\ written = {0, 1}

\* the stream with every bit inverted
Complement(stream) == [j \in 1..Len(stream) |-> 255 - stream[j]]

\* the byte b with its bit 0 inverted
FlipBit0(b) == IF b % 2 = 1 THEN b - 1 ELSE b + 1

\* what decode returns for the complement of the first 2n cells that the
\* current (encode) call stored, with output_capacity = n
DecodedComplement ==
    decode(Append(Complement(OutSeq(2 * data_in_len)), 0), 2 * data_in_len,
           ZeroMem, data_in_len)

\* C11 as stated: polarity independence of the receiver. For every byte
\* sequence b of length n, decoding the bitwise complement of encode(b)
\* (input_len = 2n, output_capacity = n) returns true and yields b.
PolarityIndependence ==
    Returned("encode", TRUE) =>
        \A e \in {DecodedComplement} :
            /\ e.ret = TRUE
            /\ \A j \in 1..data_in_len : e.data_out[j - 1] = data_in[j]

\* C11 as amended: decoding the bitwise complement of encode(b) returns true and
\* yields b with bit 0 of byte 0 inverted and every other bit as in b (nothing
\* for n = 0): the decoder takes its first level from INITIAL_SIGNAL_LEVEL, and
\* every later level from the stream. Seen from the decoder: a valid stream s
\* decodes to the bytes whose encoding is the complement of s, but for bit 0
\* of byte 0.
PolarityIndependenceButFirstBit ==
    /\ (Returned("encode", TRUE) =>
          \A e \in {DecodedComplement} :
              /\ e.ret = TRUE
              /\ e.written = 0..(data_in_len - 1)
              /\ (data_in_len > 0 => e.data_out[0] = FlipBit0(data_in[1]))
              /\ \A j \in 2..data_in_len : e.data_out[j - 1] = data_in[j])
    /\ (Returned("decode", TRUE) /\ data_in_len % 2 = 0 /\ data_in_len > 0
            /\ ValidStream(data_in) =>
          \A b \in {[OutSeq(data_in_len \div 2) EXCEPT ![1] = FlipBit0(@)]} :
          \A e \in {encode(b, data_in_len \div 2, ZeroMem, data_in_len)} :
              /\ e.ret = TRUE
              /\ \A j \in 1..data_in_len : e.data_out[j - 1] = 255 - data_in[j])

\* two bytes were encoded, and the complement of the four encoded bytes
\* decodes to the first byte with bit 0 inverted and the second byte unchanged
PolarityIndependenceWitness ==
    /\ Returned("encode", TRUE)
    /\ data_in = <<128, 229>>
    /\ DecodedComplement.ret = TRUE
    /\ DecodedComplement.data_out[0] = 129
    /\ DecodedComplement.data_out[1] = 229

====
